---- MODULE Spec2Model ----
(***************************************************************************)
(* A model of pegre, a small PEG combinator engine (src/pegre.py), and of  *)
(* the AMR triple-flattening transform of src/examples/amr.py.             *)
(*                                                                         *)
(* A matcher is a Python closure; it is modelled as a record holding the   *)
(* name of the inner function (op) and the variables the closure captured. *)
(* Calling a matcher, e(s, grm), is Run(e, s, grm).  A call has one of     *)
(* four outcomes: it returns a pair (match), it returns None (none), it    *)
(* raises (raise), or it never returns (diverge).                          *)
(***************************************************************************)
EXTENDS Integers, Sequences, FiniteSets, TLC

VARIABLES
    scenario,   \* which entry point the caller uses: "call", "parse", "triples"
    base,       \* the matcher the undecorated constructor built
    kwargs,     \* the keyword arguments given to the decorated constructor
    matcher,    \* the matcher the decorated constructor returned
    grm,        \* the grammar table passed to the matcher
    peg,        \* the Peg object: its fields start and grammar
    input,      \* the string the caller passes
    amrnode,    \* the node structure passed to triples
    pc,         \* the position of the call in progress
    s,          \* local s of match_zero_or_more / match_one_or_more
    data,       \* local data of match_zero_or_more / match_one_or_more
    result,     \* local result of match_zero_or_more / match_one_or_more
    ret         \* what the call returned (or raised)

vars == <<scenario, base, kwargs, matcher, grm, peg, input, amrnode, pc, s, data, result, ret>>

(***************************************************************************)
(* Bounds of the model.                                                    *)
(***************************************************************************)
\* the longest input string
MaxLen == 3
\* the longest list the stepwise repetition loop may collect
MaxData == 9

\* A repetition loop that returns does so within this many steps on an input
\* of at most MaxLen characters: two steps to enter, four per iteration, at
\* most MaxLen iterations that consume input and one that does not, and two
\* to leave.  A loop still running after them has completed an iteration
\* that consumed nothing, and repeats it for ever.
LoopFuel == 4 * (MaxLen + 2) + 4

Chars == {"a", "b"}
Inputs == UNION {[1..n -> Chars] : n \in 0..MaxLen}

(***************************************************************************)
(* Python values.                                                          *)
(***************************************************************************)
\* Ignore = object()
Ignore == [t |-> "Ignore"]
None == [t |-> "None"]
Str(x) == [t |-> "str", chars |-> x]
List(l) == [t |-> "list", items |-> l]
Function(name) == [t |-> "function", name |-> name]
\* the value of val(obj) for a callable val: an application, kept symbolic
Apply(val, obj) == [t |-> "apply", f |-> val.name, arg |-> obj]
callable(val) == val.t = "function"

(***************************************************************************)
(* Outcomes of a call.                                                     *)
(***************************************************************************)
Match(rem, obj) == [kind |-> "match", rem |-> rem, obj |-> obj]
NoMatch == [kind |-> "none"]
Raise(exc) == [kind |-> "raise", exc |-> exc]
Diverge == [kind |-> "diverge"]
Return(v) == [kind |-> "return", value |-> v]
Abnormal(r) == r.kind \in {"raise", "diverge"}
\* bool(result) of a matcher's result: a 2-tuple is true, None is false
Truthy(r) == r.kind = "match"

Min(a, b) == IF a < b THEN a ELSE b
\* s[n:]
Drop(str, n) == SubSeq(str, n + 1, Len(str))
\* s[:n]
Take(str, n) == SubSeq(str, 1, Min(n, Len(str)))

(***************************************************************************)
(* valuemap and the matcher constructors.                                  *)
(***************************************************************************)
NoKwargs == <<>>
Value(v) == [value |-> v]

\* valuemap testing the truth of the value given: value=None counts as none given
valuemap_truthy(f, kw) ==
    IF "value" \in DOMAIN kw /\ kw.value # None
    THEN [op |-> "valued_f", f |-> f, val |-> kw.value]
    ELSE f

valuemap(f, kw) ==
    IF "value" \in DOMAIN kw
    THEN [op |-> "valued_f", f |-> f, val |-> kw.value]
    ELSE f

NoDelimiter == [op |-> "None"]

literal(x, kw) == valuemap([op |-> "match_literal", x |-> x], kw)
regex(r, kw) == valuemap([op |-> "match_regex", r |-> r], kw)
nonterminal(n, kw) == valuemap([op |-> "match_nonterminal", n |-> n], kw)
and_next(e, kw) == valuemap([op |-> "match_and_next", e |-> e], kw)
not_next(e, kw) == valuemap([op |-> "match_not_next", e |-> e], kw)
sequence(es, kw) == valuemap([op |-> "match_sequence", es |-> es], kw)
choice(es, kw) == valuemap([op |-> "match_choice", es |-> es], kw)
optional(e, kw) == valuemap([op |-> "match_optional", e |-> e], kw)
zero_or_more(e, delimiter, kw) ==
    valuemap([op |-> "match_zero_or_more", e |-> e, delimiter |-> delimiter], kw)
one_or_more(e, delimiter, kw) ==
    valuemap([op |-> "match_one_or_more", e |-> e, delimiter |-> delimiter], kw)

(***************************************************************************)
(* The matchers.  m is the closure: the record of the captured variables.  *)
(***************************************************************************)
RECURSIVE Run(_, _, _)

match_literal(m, str, g) ==
    LET xlen == Len(m.x)
    IN  IF Take(str, xlen) = m.x THEN Match(Drop(str, xlen), Str(m.x)) ELSE NoMatch

\* p.match(s) for the patterns [cls]* (min = 0) and [cls]+ (min = 1):
\* the end of the longest prefix of s made of characters of cls, or -1
re_match(r, str) ==
    LET ends == {n \in 0..Len(str) : \A i \in 1..n : str[i] \in r.cls}
        end == CHOOSE n \in ends : \A k \in ends : k <= n
    IN  IF end >= r.min THEN end ELSE -1

match_regex(m, str, g) ==
    LET end == re_match(m.r, str)
    IN  IF end # -1 THEN Match(Drop(str, end), Str(Take(str, end))) ELSE NoMatch

\* match_nonterminal looking the name up with grm.get(n): no rule, no match
match_nonterminal_get(m, str, g) ==
    IF m.n \in DOMAIN g THEN Run(g[m.n], str, g) ELSE NoMatch

match_nonterminal(m, str, g) ==
    IF m.n \in DOMAIN g THEN Run(g[m.n], str, g) ELSE Raise("KeyError")

match_and_next(m, str, g) ==
    LET r == Run(m.e, str, g)
    IN  IF Abnormal(r) THEN r
        ELSE IF Truthy(r) THEN Match(str, Ignore) ELSE NoMatch

match_not_next(m, str, g) ==
    LET r == Run(m.e, str, g)
    IN  IF Abnormal(r) THEN r
        ELSE IF ~Truthy(r) THEN Match(str, Ignore) ELSE NoMatch

\* the for loop of match_sequence, from the i-th expression on
RECURSIVE sequence_loop(_, _, _, _, _)
sequence_loop(es, i, str, acc, g) ==
    IF i > Len(es) THEN Match(str, List(acc))
    ELSE LET r == Run(es[i], str, g)
         IN  IF Abnormal(r) THEN r
             ELSE IF r.kind = "none" THEN NoMatch
             ELSE sequence_loop(es, i + 1, r.rem,
                                IF r.obj # Ignore THEN Append(acc, r.obj) ELSE acc, g)

\* match_sequence appending every value, Ignore too
RECURSIVE sequence_loop_unfiltered(_, _, _, _, _)
sequence_loop_unfiltered(es, i, str, acc, g) ==
    IF i > Len(es) THEN Match(str, List(acc))
    ELSE LET r == Run(es[i], str, g)
         IN  IF Abnormal(r) THEN r
             ELSE IF r.kind = "none" THEN NoMatch
             ELSE sequence_loop_unfiltered(es, i + 1, r.rem, Append(acc, r.obj), g)

match_sequence_unfiltered(m, str, g) == sequence_loop_unfiltered(m.es, 1, str, <<>>, g)

match_sequence(m, str, g) == sequence_loop(m.es, 1, str, <<>>, g)

\* the for loop of match_choice, from the i-th expression on
RECURSIVE choice_loop(_, _, _, _)
choice_loop(es, i, str, g) ==
    IF i > Len(es) THEN NoMatch
    ELSE LET r == Run(es[i], str, g)
         IN  IF Abnormal(r) THEN r
             ELSE IF r.kind # "none" THEN r
             ELSE choice_loop(es, i + 1, str, g)

\* match_choice without the return inside the loop: the last success wins
RECURSIVE choice_loop_last(_, _, _, _, _)
choice_loop_last(es, i, str, best, g) ==
    IF i > Len(es) THEN best
    ELSE LET r == Run(es[i], str, g)
         IN  IF Abnormal(r) THEN r
             ELSE choice_loop_last(es, i + 1, str, IF r.kind # "none" THEN r ELSE best, g)

match_choice_last(m, str, g) == choice_loop_last(m.es, 1, str, NoMatch, g)

match_choice(m, str, g) == choice_loop(m.es, 1, str, g)

match_optional(m, str, g) ==
    LET r == Run(m.e, str, g)
    IN  IF Abnormal(r) THEN r
        ELSE IF r.kind # "none" THEN r ELSE Match(str, Ignore)

valued_f(m, str, g) ==
    LET r == Run(m.f, str, g)
    IN  IF Abnormal(r) THEN r
        ELSE IF r.kind # "none"
             THEN IF callable(m.val) THEN Match(r.rem, Apply(m.val, r.obj))
                  ELSE Match(r.rem, m.val)
             ELSE NoMatch

(***************************************************************************)
(* match_zero_or_more and match_one_or_more, one step at a time.  The two  *)
(* functions are the same text but for the collection of e's value and the *)
(* return when e fails at once.  A frame holds the position in the         *)
(* function (pc), its locals s, data and result, and what it returned.     *)
(***************************************************************************)
Unset == [kind |-> "unset"]
Frame0(str) == [pc |-> "call", s |-> str, data |-> <<>>, result |-> Unset, ret |-> Unset]

\* a call made by the function raised, or never returns
rep_abort(f, r) ==
    IF r.kind = "raise" THEN [f EXCEPT !.pc = "done", !.ret = r]
    ELSE [f EXCEPT !.pc = "hang", !.ret = r]

\* result = e(s, grm): before the loop (pc = "call") and at the end of its body
rep_call(m, f, g) ==
    LET r == Run(m.e, f.s, g)
    IN  IF Abnormal(r) THEN rep_abort(f, r)
        ELSE [f EXCEPT !.result = r, !.pc = IF f.pc = "call" THEN "if" ELSE "while"]

\* if result is not None: data = []
rep_if(m, f) ==
    IF f.result.kind # "none"
    THEN [f EXCEPT !.data = <<>>, !.pc = "while"]
    ELSE [f EXCEPT !.pc = "ret_none"]

\* while result is not None:
rep_while(m, f) ==
    IF f.result.kind # "none" THEN [f EXCEPT !.pc = "collect"]
    ELSE [f EXCEPT !.pc = "ret_data"]

\* s, obj = result; if obj is not Ignore: data.append(obj), which in
\* match_one_or_more is accumulate(data, obj), a name the module never defines
rep_collect(m, f) ==
    LET obj == f.result.obj
    IN  IF obj # Ignore
        THEN IF m.op = "match_zero_or_more"
             THEN [f EXCEPT !.s = f.result.rem, !.data = Append(f.data, obj), !.pc = "delim"]
             ELSE [f EXCEPT !.s = f.result.rem, !.pc = "done", !.ret = Raise("NameError")]
        ELSE [f EXCEPT !.s = f.result.rem, !.pc = "delim"]

\* rep_delim consuming the delimiter without collecting its value
rep_delim_drop(m, f, g) ==
    IF m.delimiter # NoDelimiter
    THEN LET r == Run(m.delimiter, f.s, g)
         IN  IF Abnormal(r) THEN rep_abort(f, r)
             ELSE IF r.kind = "none" THEN [f EXCEPT !.result = r, !.pc = "ret_data"]
             ELSE [f EXCEPT !.result = r, !.s = r.rem, !.pc = "next"]
    ELSE [f EXCEPT !.pc = "next"]

\* if delimiter is not None: result = delimiter(s, grm); break when it is None,
\* else s, obj = result and obj is collected
rep_delim(m, f, g) ==
    IF m.delimiter # NoDelimiter
    THEN LET r == Run(m.delimiter, f.s, g)
         IN  IF Abnormal(r) THEN rep_abort(f, r)
             ELSE IF r.kind = "none" THEN [f EXCEPT !.result = r, !.pc = "ret_data"]
             ELSE [f EXCEPT !.result = r, !.s = r.rem,
                            !.data = IF r.obj # Ignore THEN Append(f.data, r.obj) ELSE f.data,
                            !.pc = "next"]
    ELSE [f EXCEPT !.pc = "next"]

\* rep_return giving Ignore for an empty list as for no repetition
rep_return_empty_ignore(m, f) ==
    IF f.pc = "ret_data" /\ f.data # <<>>
    THEN [f EXCEPT !.pc = "done", !.ret = Match(f.s, List(f.data))]
    ELSE IF m.op = "match_zero_or_more"
         THEN [f EXCEPT !.pc = "done", !.ret = Match(f.s, Ignore)]
         ELSE [f EXCEPT !.pc = "done", !.ret = NoMatch]

\* return (s, data) after the loop; return (s, Ignore), or None in
\* match_one_or_more, when e failed at once
rep_return(m, f) ==
    IF f.pc = "ret_data" THEN [f EXCEPT !.pc = "done", !.ret = Match(f.s, List(f.data))]
    ELSE IF m.op = "match_zero_or_more"
         THEN [f EXCEPT !.pc = "done", !.ret = Match(f.s, Ignore)]
         ELSE [f EXCEPT !.pc = "done", !.ret = NoMatch]

rep_step(m, f, g) ==
    CASE f.pc \in {"call", "next"} -> rep_call(m, f, g)
      [] f.pc = "if" -> rep_if(m, f)
      [] f.pc = "while" -> rep_while(m, f)
      [] f.pc = "collect" -> rep_collect(m, f)
      [] f.pc = "delim" -> rep_delim(m, f, g)
      [] f.pc \in {"ret_data", "ret_none"} -> rep_return(m, f)

\* the function run to its end; Diverge when it has none
RECURSIVE rep_run(_, _, _, _)
rep_run(m, f, g, fuel) ==
    IF f.pc \in {"done", "hang"} THEN f.ret
    ELSE IF fuel = 0 THEN Diverge
    ELSE rep_run(m, rep_step(m, f, g), g, fuel - 1)

match_zero_or_more(m, str, g) == rep_run(m, Frame0(str), g, LoopFuel)

match_one_or_more(m, str, g) == rep_run(m, Frame0(str), g, LoopFuel)

\* e(s, grm)
Run(e, str, g) ==
    CASE e.op = "match_literal" -> match_literal(e, str, g)
      [] e.op = "match_regex" -> match_regex(e, str, g)
      [] e.op = "match_nonterminal" -> match_nonterminal(e, str, g)
      [] e.op = "match_and_next" -> match_and_next(e, str, g)
      [] e.op = "match_not_next" -> match_not_next(e, str, g)
      [] e.op = "match_sequence" -> match_sequence(e, str, g)
      [] e.op = "match_choice" -> match_choice(e, str, g)
      [] e.op = "match_optional" -> match_optional(e, str, g)
      [] e.op = "match_zero_or_more" -> match_zero_or_more(e, str, g)
      [] e.op = "match_one_or_more" -> match_one_or_more(e, str, g)
      [] e.op = "valued_f" -> valued_f(e, str, g)

(***************************************************************************)
(* class Peg.                                                              *)
(***************************************************************************)
\* Peg(grammar, start='start')
Peg(grammar, kw) ==
    [start |-> IF "start" \in DOMAIN kw THEN kw.start ELSE "start", grammar |-> grammar]

\* parse taking only a match of the whole string for a success
parse_whole(self, str) ==
    IF self.start \notin DOMAIN self.grammar THEN Raise("KeyError")
    ELSE LET r == Run(self.grammar[self.start], str, self.grammar)
         IN  IF Abnormal(r) THEN r
             ELSE IF Truthy(r) /\ r.rem = <<>> THEN Return(r.obj) ELSE Return(None)

parse(self, str) ==
    IF self.start \notin DOMAIN self.grammar THEN Raise("KeyError")
    ELSE LET r == Run(self.grammar[self.start], str, self.grammar)
         IN  IF Abnormal(r) THEN r
             ELSE IF Truthy(r) THEN Return(r.obj) ELSE Return(None)

(***************************************************************************)
(* src/examples/amr.py: AmrNode and triples.  Every Python string is a     *)
(* Str; a relation is a pair <<reln, tgt>>, tgt an AmrNode or a Str.       *)
(***************************************************************************)
AmrNode(identifier, relations) ==
    [t |-> "AmrNode", identifier |-> identifier, relations |-> relations]
isinstance_AmrNode(tgt) == tgt.t = "AmrNode"

\* _triples(a, visited) and the for loop of its body from the i-th relation
\* on.  visited is one set shared by every call: each returns it as it left
\* it, beside what the call returned (a list, or None) or raised.
RECURSIVE _triples(_, _)
RECURSIVE _triples_loop(_, _, _, _)
_triples_loop(a, i, ts, visited) ==
    IF i > Len(a.relations) THEN [out |-> Return(List(ts)), visited |-> visited]
    ELSE LET reln == a.relations[i][1]
             tgt == a.relations[i][2]
         IN  IF isinstance_AmrNode(tgt)
             THEN LET ts1 == Append(ts, <<a.identifier, reln, tgt.identifier>>)
                  IN  LET sub == _triples(tgt, visited)
                      IN  IF sub.out.kind = "raise" THEN sub
                          \* ts.extend(None)
                          ELSE IF sub.out.value = None
                          THEN [out |-> Raise("TypeError"), visited |-> sub.visited]
                          ELSE _triples_loop(a, i + 1, ts1 \o sub.out.value.items,
                                             sub.visited)
             ELSE _triples_loop(a, i + 1, Append(ts, <<a.identifier, reln, tgt>>), visited)

_triples(a, visited) ==
    IF a.identifier \in visited THEN [out |-> Return(None), visited |-> visited]
    ELSE _triples_loop(a, 1, <<>>, visited \cup {a.identifier})

TOP == Str(<<"T", "O", "P">>)
top == Str(<<":", "t", "o", "p">>)
\* reln[-3:] and reln[:-3]
Last3(c) == SubSeq(c, IF Len(c) > 3 THEN Len(c) - 2 ELSE 1, Len(c))
DropLast3(c) == SubSeq(c, 1, Len(c) - 3)

\* the body of the for loop of triples, for one triple (x, reln, y)
invert(tr) ==
    IF Last3(tr[2].chars) = <<"-", "o", "f">>
    THEN <<tr[3], Str(DropLast3(tr[2].chars)), tr[1]>>
    ELSE tr

triples(node) ==
    IF node # None
    THEN LET sub == _triples(node, {})
         IN  IF sub.out.kind = "raise" THEN sub.out
             ELSE Return(List(<<<<TOP, top, node.identifier>>>>
                              \o [i \in 1..Len(sub.out.value.items) |->
                                     invert(sub.out.value.items[i])]))
    ELSE Return(List(<<>>))

(***************************************************************************)
(* The inputs the model draws from.                                        *)
(***************************************************************************)
lit_a == literal(<<"a">>, NoKwargs)
lit_b == literal(<<"b">>, NoKwargs)
many_a == [cls |-> {"a"}, min |-> 0]

\* the values given as value=
Transforms == {Function("f"), Ignore, None, Str(<<"k">>)}

\* the expressions the combinators are built over
Operands ==
    { lit_a, lit_b,
      literal(<<"a">>, Value(Ignore)), literal(<<"b">>, Value(Ignore)),
      regex(many_a, NoKwargs),
      nonterminal("A", NoKwargs), nonterminal("missing", NoKwargs),
      optional(lit_a, NoKwargs), not_next(lit_b, NoKwargs),
      sequence(<<lit_a, lit_b>>, NoKwargs),
      zero_or_more(lit_a, NoDelimiter, NoKwargs) }

Unary ==
    {and_next(e, NoKwargs) : e \in Operands}
    \cup {not_next(e, NoKwargs) : e \in Operands}
    \cup {optional(e, NoKwargs) : e \in Operands}
    \cup {zero_or_more(e, NoDelimiter, NoKwargs) : e \in Operands}
    \cup {one_or_more(e, NoDelimiter, NoKwargs) : e \in Operands}

Binary ==
    {sequence(<<a, b>>, NoKwargs) : a, b \in Operands}
    \cup {choice(<<a, b>>, NoKwargs) : a, b \in Operands}
    \cup {zero_or_more(e, d, NoKwargs) : e, d \in Operands}
    \cup {one_or_more(e, d, NoKwargs) : e, d \in Operands}

Ternary ==
    {sequence(<<a, b, lit_a>>, NoKwargs) : a, b \in {lit_a, lit_b, literal(<<"b">>, Value(Ignore))}}
    \cup {choice(<<a, b, lit_a>>, NoKwargs) : a, b \in {lit_b, nonterminal("A", NoKwargs)}}

\* what an undecorated constructor builds, and the keyword arguments it is
\* decorated with
Bases == Operands \cup Unary \cup Binary \cup Ternary
KwargsOf(b) ==
    IF b \in Operands \cup Unary THEN {NoKwargs} \cup {Value(v) : v \in Transforms}
    ELSE {NoKwargs}

\* A <- 'a' A?
Grammar == [A |-> sequence(<<lit_a, optional(nonterminal("A", NoKwargs), NoKwargs)>>, NoKwargs)]
Grammars == {Grammar} \cup {("start" :> e) @@ Grammar : e \in Operands \cup Unary}
StartKwargs == {<<>>, [start |-> "A"], [start |-> "missing"]}

\* the AMR node structures
MaxRelations == 2
Identifiers == {Str(<<"a">>), Str(<<"b">>)}
Relns == {Str(<<":", "r">>), Str(<<":", "p", "-", "o", "f">>)}
Plain == {Str(<<"x">>)}
RelationLists(tgts, n) == UNION {[1..k -> Relns \X tgts] : k \in 0..n}
Nodes0 == {AmrNode(i, r) : i \in Identifiers, r \in RelationLists(Plain, 1)}
Nodes1 == {AmrNode(i, r) : i \in Identifiers, r \in RelationLists(Plain \cup Nodes0, MaxRelations)}
Nodes2 == {AmrNode(i, r) : i \in Identifiers, r \in RelationLists(Nodes1, 1)}
AmrNodes == Nodes1 \cup Nodes2 \cup {None}

(***************************************************************************)
(* The state machine: a caller builds a matcher and calls it, or builds a  *)
(* Peg and calls parse, or calls triples.                                  *)
(***************************************************************************)
NoMatcher == [op |-> "None"]
NoPeg == [start |-> "", grammar |-> <<>>]
Repetitions == {"match_zero_or_more", "match_one_or_more"}

InitCall ==
    /\ scenario = "call"
    /\ \E b \in Bases : \E kw \in KwargsOf(b) :
          /\ base = b
          /\ kwargs = kw
          /\ matcher = valuemap(b, kw)
    /\ grm = Grammar
    /\ peg = NoPeg
    /\ input \in Inputs
    /\ amrnode = None

InitParse ==
    /\ scenario = "parse"
    /\ base = NoMatcher /\ matcher = NoMatcher
    /\ \E g \in Grammars : \E kw \in StartKwargs :
          /\ grm = g
          /\ kwargs = kw
          /\ peg = Peg(g, kw)
    /\ input = <<>>
    /\ amrnode = None

InitTriples ==
    /\ scenario = "triples"
    /\ base = NoMatcher /\ kwargs = NoKwargs /\ matcher = NoMatcher
    /\ grm = <<>>
    /\ peg = NoPeg
    /\ input = <<>>
    /\ amrnode \in AmrNodes

Init ==
    /\ (InitCall \/ InitParse \/ InitTriples)
    /\ pc = "ready"
    /\ s = <<>> /\ data = <<>> /\ result = Unset /\ ret = Unset

Frame == [pc |-> pc, s |-> s, data |-> data, result |-> result, ret |-> ret]
SetFrame(f) ==
    /\ pc' = f.pc /\ s' = f.s /\ data' = f.data /\ result' = f.result /\ ret' = f.ret
    /\ UNCHANGED <<scenario, base, kwargs, matcher, grm, peg, input, amrnode>>

\* matcher(input, grm), for a matcher that is not a repetition
Call ==
    /\ scenario = "call" /\ pc = "ready"
    /\ matcher.op \notin Repetitions
    /\ LET r == Run(matcher, input, grm)
       IN  /\ ret' = r
           /\ pc' = IF r.kind = "diverge" THEN "hang" ELSE "done"
    /\ UNCHANGED <<scenario, base, kwargs, matcher, grm, peg, input, amrnode, s, data, result>>

\* matcher(input, grm), for a repetition: the call binds s
RepEnter ==
    /\ scenario = "call" /\ pc = "ready"
    /\ matcher.op \in Repetitions
    /\ SetFrame(Frame0(input))

RepCall == pc = "call" /\ SetFrame(rep_call(matcher, Frame, grm))

RepIf == pc = "if" /\ SetFrame(rep_if(matcher, Frame))

RepWhile == pc = "while" /\ SetFrame(rep_while(matcher, Frame))

RepCollect ==
    /\ pc = "collect"
    /\ Len(data) < MaxData
    /\ SetFrame(rep_collect(matcher, Frame))

RepDelim ==
    /\ pc = "delim"
    /\ Len(data) < MaxData
    /\ SetFrame(rep_delim(matcher, Frame, grm))

RepNext == pc = "next" /\ SetFrame(rep_call(matcher, Frame, grm))

RepReturn == pc \in {"ret_data", "ret_none"} /\ SetFrame(rep_return(matcher, Frame))

\* peg.parse(str); a Peg may be asked to parse any number of strings
Parse ==
    /\ scenario = "parse" /\ pc \in {"ready", "done"}
    /\ \E str \in Inputs :
          LET r == parse(peg, str)
          IN  /\ input' = str
              /\ ret' = r
              /\ pc' = IF r.kind = "diverge" THEN "hang" ELSE "done"
    /\ UNCHANGED <<scenario, base, kwargs, matcher, grm, peg, amrnode, s, data, result>>

\* triples(amrnode)
Triples ==
    /\ scenario = "triples" /\ pc = "ready"
    /\ ret' = triples(amrnode)
    /\ pc' = "done"
    /\ UNCHANGED <<scenario, base, kwargs, matcher, grm, peg, input, amrnode, s, data, result>>

Next ==
    \/ Call \/ RepEnter \/ RepCall \/ RepIf \/ RepWhile \/ RepCollect
    \/ RepDelim \/ RepNext \/ RepReturn \/ Parse \/ Triples

Spec == Init /\ [][Next]_vars

\* A call of a repetition alone, statement by statement, over the operands
\* that are neither a rule of the grammar nor a repetition themselves.  A call
\* in progress goes on: the interpreter always runs the next statement.
LoopOperands == Operands \ {nonterminal("A", NoKwargs), zero_or_more(lit_a, NoDelimiter, NoKwargs)}
LoopInit ==
    /\ Init
    /\ scenario = "call" /\ matcher.op \in Repetitions
    /\ matcher.e \in LoopOperands
    /\ matcher.delimiter \in LoopOperands \cup {NoDelimiter}
LoopNext ==
    \/ RepEnter \/ RepCall \/ RepIf \/ RepWhile \/ RepCollect
    \/ RepDelim \/ RepNext \/ RepReturn
LoopSpec == LoopInit /\ [][LoopNext]_vars /\ WF_vars(LoopNext)

(***************************************************************************)
(* The claims.                                                             *)
(***************************************************************************)
NotIgnore(v) == v # Ignore
Objs(rs) == [i \in 1..Len(rs) |-> rs[i].obj]
Called == scenario = "call" /\ pc = "done"
Plain1(op) == Called /\ kwargs = NoKwargs /\ base.op = op

\* C1: choice(e1, .., en) on s returns exactly the result of the first ei
\* that succeeds on the original s, every earlier one having failed on s
\* (for choice(a, b): a's result if a succeeds, else b's result on s); it
\* fails only if every ei fails on s; nothing after the first success is
\* tried, so what a later alternative would do does not matter.
C1_ChoiceFirstSuccess ==
    Plain1("match_choice") =>
        LET es == base.es
            r(i) == Run(es[i], input, grm)
        IN  /\ \A i \in 1..Len(es) :
                  ((\A j \in 1..(i - 1) : r(j).kind = "none") /\ r(i).kind = "match")
                      => ret = r(i)
            /\ ret.kind = "none" <=> \A i \in 1..Len(es) : r(i).kind = "none"

\* a consumes 'a' and then fails; b succeeds on the original input
C1_Witness ==
    /\ Plain1("match_choice")
    /\ base.es = <<sequence(<<lit_a, lit_b>>, NoKwargs), lit_a>>
    /\ input = <<"a", "a">>
    /\ ret = Match(<<"a">>, Str(<<"a">>))

\* C2: sequence(a, b) succeeds iff a succeeds on s and b succeeds on the
\* remainder a left; its remainder is then b's and its value the list of
\* a's and b's values, in that order, without the Ignore ones; it fails iff
\* a fails or b fails, and then returns None, with no remainder at all.
C2_SequenceBoth ==
    (Plain1("match_sequence") /\ Len(base.es) = 2) =>
        LET ra == Run(base.es[1], input, grm)
            rb == Run(base.es[2], ra.rem, grm)
            both == ra.kind = "match" /\ rb.kind = "match"
        IN  /\ ret.kind = "match" <=> both
            /\ both => ret = Match(rb.rem, List(SelectSeq(<<ra.obj, rb.obj>>, NotIgnore)))
            /\ ret.kind = "none" <=>
                   (ra.kind = "none" \/ (ra.kind = "match" /\ rb.kind = "none"))
            /\ ret.kind = "none" => ret = NoMatch

\* a's value is Ignore and is left out; b's is kept
C2_Witness ==
    /\ Plain1("match_sequence")
    /\ base.es = <<literal(<<"a">>, Value(Ignore)), lit_b>>
    /\ input = <<"a", "b", "a">>
    /\ ret = Match(<<"a">>, List(<<Str(<<"b">>)>>))

\* the results of the successive matches of e from str on, up to its first failure
RECURSIVE Repeated(_, _, _)
Repeated(e, str, g) ==
    LET r == Run(e, str, g)
    IN  IF r.kind = "match" THEN <<r>> \o Repeated(e, r.rem, g) ELSE <<>>

IsZeroOrMore == Plain1("match_zero_or_more") /\ base.delimiter = NoDelimiter

\* C3 as stated: zero_or_more(e) never fails; when e fails on s it succeeds
\* with Ignore and remainder s; when one or more repetitions match it
\* succeeds with a non-empty list.
C3_Original ==
    IsZeroOrMore =>
        LET r == Run(base.e, input, grm)
        IN  /\ ret.kind # "none"
            /\ r.kind = "none" => ret = Match(input, Ignore)
            /\ (r.kind = "match" /\ ret.kind = "match") =>
                   (ret.obj.t = "list" /\ Len(ret.obj.items) > 0)

\* C3 as amended: zero_or_more(e) never returns the no-match result; when e
\* fails on s it succeeds with Ignore and remainder s; when one or more
\* repetitions match and it returns, it succeeds with the remainder of the
\* last repetition and the list, in order, of the repetitions' values that
\* are not Ignore, which is the empty list when every one of them is Ignore.
C3_ZeroOrMoreList ==
    IsZeroOrMore =>
        LET r == Run(base.e, input, grm)
        IN  /\ ret.kind # "none"
            /\ r.kind = "none" => ret = Match(input, Ignore)
            /\ (r.kind = "match" /\ ret.kind = "match") =>
                   LET rs == Repeated(base.e, input, grm)
                   IN  ret = Match(rs[Len(rs)].rem, List(SelectSeq(Objs(rs), NotIgnore)))

\* two repetitions match, each with value Ignore: the list is empty
C3_Witness ==
    /\ IsZeroOrMore
    /\ base.e = literal(<<"a">>, Value(Ignore))
    /\ input = <<"a", "a", "b">>
    /\ ret = Match(<<"b">>, List(<<>>))

\* C4: one_or_more(e, d) fails when e fails on s; otherwise it succeeds with
\* the remainder and the list zero_or_more(e, d) produces on s.
C4_OneOrMoreAsZeroOrMore ==
    Plain1("match_one_or_more") =>
        LET r == Run(base.e, input, grm)
            z == Run(zero_or_more(base.e, base.delimiter, NoKwargs), input, grm)
        IN  /\ r.kind = "none" => ret = NoMatch
            /\ (r.kind = "match" /\ z.kind = "match") => ret = z

StartOf(kw) == IF "start" \in DOMAIN kw THEN kw.start ELSE "start"
Parsed == scenario = "parse" /\ pc = "done"

\* C5: Peg(grammar, start).parse(s) runs grammar[start], start being 'start'
\* when none is given, on the whole of s with the grammar: when that matcher
\* succeeds parse returns its value, whatever the remainder; when it fails
\* parse returns None; and so for every call, whatever was parsed before.
C5_ParseValue ==
    (Parsed /\ StartOf(kwargs) \in DOMAIN grm) =>
        LET r == Run(grm[StartOf(kwargs)], input, grm)
        IN  /\ r.kind = "match" => ret = Return(r.obj)
            /\ r.kind = "none" => ret = Return(None)

\* the default start symbol matches a proper prefix of the input
C5_Witness ==
    /\ Parsed
    /\ kwargs = NoKwargs /\ "start" \in DOMAIN grm
    /\ LET r == Run(grm["start"], input, grm)
       IN  r.kind = "match" /\ r.rem # <<>> /\ r.rem # input /\ ret = Return(r.obj)

\* C6: a matcher built with value= fails exactly when the matcher built
\* without it fails; when that one succeeds with (remainder, v) it succeeds
\* with the same remainder and f(v) for a function f, or the fixed value
\* (None and Ignore included); without value= the matcher built is returned
\* as it is.
C6_ValueTransform ==
    (scenario = "call" /\ pc # "ready") =>
        IF "value" \in DOMAIN kwargs
        THEN LET u == Run(base, input, grm)
                 val == kwargs.value
             IN  /\ u.kind = "none" <=> ret.kind = "none"
                 /\ u.kind = "match" =>
                        ret = Match(u.rem, IF callable(val) THEN Apply(val, u.obj) ELSE val)
        ELSE matcher = base

\* the fixed value None replaces the value of a successful match
C6_Witness ==
    /\ Called
    /\ kwargs = Value(None)
    /\ Run(base, input, grm).kind = "match"
    /\ ret = Match(Run(base, input, grm).rem, None)

KeyError == Raise("KeyError")
\* e is a nonterminal whose name the grammar lacks, or its call on str ends
\* with the lookup error of one
Missing(e) == e.op = "match_nonterminal" /\ e.n \notin DOMAIN grm
LookupFails(e, str) == Missing(e) \/ Run(e, str, grm) = KeyError

\* C7: when a nonterminal whose name is not a key of the grammar is invoked,
\* the outcome is a lookup error, not the no-match result, and it comes out
\* of every enclosing combinator as it is (a value= wrapper, and_next,
\* not_next, optional, choice after the alternatives that failed, sequence
\* after the parts that matched, zero_or_more and one_or_more whether e or
\* the delimiter raises it) and out of Peg.parse.
C7_LookupErrorPropagates ==
    /\ Called =>
          /\ Missing(base) => ret = KeyError
          /\ (base.op \in {"match_and_next", "match_not_next", "match_optional"}
                 /\ LookupFails(base.e, input)) => ret = KeyError
          /\ (base.op = "match_choice"
                 /\ \E i \in 1..Len(base.es) :
                       /\ \A j \in 1..(i - 1) : Run(base.es[j], input, grm).kind = "none"
                       /\ LookupFails(base.es[i], input)) => ret = KeyError
          /\ (base.op = "match_sequence"
                 /\ \/ LookupFails(base.es[1], input)
                    \/ LET ra == Run(base.es[1], input, grm)
                       IN  ra.kind = "match" /\ LookupFails(base.es[2], ra.rem))
                => ret = KeyError
          /\ (base.op \in Repetitions /\ LookupFails(base.e, input)) => ret = KeyError
          /\ (base.op \in Repetitions /\ base.delimiter # NoDelimiter
                 /\ LET r == Run(base.e, input, grm)
                    IN  /\ r.kind = "match"
                        /\ base.op = "match_one_or_more" => r.obj = Ignore
                        /\ LookupFails(base.delimiter, r.rem)) => ret = KeyError
    /\ (Parsed /\ StartOf(kwargs) \in DOMAIN grm
           /\ LookupFails(grm[StartOf(kwargs)], input)) => ret = KeyError

\* the first alternative fails and the second is an undefined nonterminal
C7_Witness ==
    /\ Plain1("match_choice")
    /\ base.es = <<lit_b, nonterminal("missing", NoKwargs)>>
    /\ input = <<"a">>
    /\ ret = KeyError

\* the stepwise loop has collected as much as the model lets it
DataBound == pc \in {"collect", "delim"} /\ Len(data) >= MaxData

\* C8: every call completes; in particular the loops of zero_or_more and
\* one_or_more end, and the call returns or raises, for every repeated
\* expression e and delimiter, also when they succeed without consuming
\* input (runs that outgrow the model's list bound aside).
C8_Terminates == <>(pc = "done" \/ DataBound)

\* C9: triples of a node structure returns a list of triples whose first
\* entry is ('TOP', ':top', root identifier), also when a node identifier is
\* met again as a relation target.
C9_TriplesTop ==
    (scenario = "triples" /\ pc = "done" /\ amrnode # None) =>
        /\ ret.kind = "return"
        /\ Len(ret.value.items) >= 1
        /\ ret.value.items[1] = <<TOP, top, amrnode.identifier>>

\* the results of the steps e, delimiter, e, delimiter, .. from str on, up
\* to the first step that fails; step n is e when n is odd
RECURSIVE Alternating(_, _, _, _, _)
Alternating(e, d, str, g, n) ==
    LET r == Run(IF n % 2 = 1 THEN e ELSE d, str, g)
    IN  IF r.kind = "match" THEN <<r>> \o Alternating(e, d, r.rem, g, n + 1) ELSE <<>>

\* C10: zero_or_more(e, delimiter) takes the steps e, delimiter, e, .. and
\* stops at the first that fails; it returns the remainder of the last step
\* that succeeded (a delimiter's, when the e after it fails) and the list of
\* the values of the steps that succeeded, e's and delimiter's, in order,
\* without the Ignore ones; so a trailing delimiter's value comes last.
C10_DelimitedSteps ==
    (Plain1("match_zero_or_more") /\ base.delimiter # NoDelimiter /\ ret.kind = "match") =>
        LET st == Alternating(base.e, base.delimiter, input, grm, 1)
            n == Len(st)
        IN  IF n = 0 THEN ret = Match(input, Ignore)
            ELSE /\ ret.rem = st[n].rem
                 /\ ret.obj = List(SelectSeq(Objs(st), NotIgnore))
                 /\ (n % 2 = 0 /\ st[n].obj # Ignore) =>
                        ret.obj.items[Len(ret.obj.items)] = st[n].obj

\* e, the delimiter, and then e fails: the delimiter stays consumed
C10_Witness ==
    /\ Plain1("match_zero_or_more")
    /\ base.e = lit_a /\ base.delimiter = lit_b
    /\ input = <<"a", "b", "b">>
    /\ ret = Match(<<"b">>, List(<<Str(<<"a">>), Str(<<"b">>)>>))

====
